---- MODULE Spec2Model ----
(***************************************************************************)
(* A model of validator.py: the invoice-total picker (pick_invoice_total), *)
(* the amount normalisation (_amount_to_number) and the invoice-type       *)
(* detector (detect_invoice_type).                                         *)
(*                                                                         *)
(* Text is modelled character by character: a Python str is a sequence of  *)
(* one-character strings, so that substring tests ("total" in "subtotal"), *)
(* str.find, slicing, str.strip, str.replace and the regular expressions   *)
(* are computed the way the code computes them.                            *)
(*                                                                         *)
(* Amounts are floats in the code. Here a float is a record                *)
(*   [isnan |-> BOOLEAN, cents |-> Int]                                    *)
(* holding the value in hundredths (exact for every text with at most two  *)
(* fractional digits, which is every text the model feeds it), or the      *)
(* not-a-number value.  A score s is kept as the integer s * N, where      *)
(* N = max(1, len(lines)), which orders scores exactly as the floats do    *)
(* for the document lengths explored here.                                 *)
(***************************************************************************)
EXTENDS Integers, Sequences, FiniteSets, TLC

\* ------------------------------------------------------------------ text

UpperChars == <<"A","B","C","D","E","F","G","H","I","J","K","L","M",
                "N","O","P","Q","R","S","T","U","V","W","X","Y","Z">>
LowerChars == <<"a","b","c","d","e","f","g","h","i","j","k","l","m",
                "n","o","p","q","r","s","t","u","v","w","x","y","z">>
DigitChars == <<"0","1","2","3","4","5","6","7","8","9">>

IsDigit(c) == \E i \in 1..10 : DigitChars[i] = c
DigitVal(c) == (CHOOSE i \in 1..10 : DigitChars[i] = c) - 1
IsSpace(c) == c = " "
IsUpper(c) == \E i \in 1..26 : UpperChars[i] = c
IsLower(c) == \E i \in 1..26 : LowerChars[i] = c

lowerChar(c) == IF IsUpper(c) THEN LowerChars[CHOOSE i \in 1..26 : UpperChars[i] = c] ELSE c
upperChar(c) == IF IsLower(c) THEN UpperChars[CHOOSE i \in 1..26 : LowerChars[i] = c] ELSE c

\* str.lower() and str.upper()
lower(s) == [i \in 1..Len(s) |-> lowerChar(s[i])]
upper(s) == [i \in 1..Len(s) |-> upperChar(s[i])]

\* s[from:] with a 0-based start, as a Python slice
SliceFrom(s, from) == IF from >= Len(s) THEN <<>> ELSE SubSeq(s, from + 1, Len(s))

\* whether needle occurs in hay at the 0-based offset k
OccursAt(hay, needle, k) ==
    /\ k + Len(needle) <= Len(hay)
    /\ \A i \in 1..Len(needle) : hay[k + i] = needle[i]

\* hay.find(needle): the least 0-based offset of an occurrence, or -1
find(hay, needle) ==
    IF \E k \in 0..Len(hay) : OccursAt(hay, needle, k)
    THEN CHOOSE k \in 0..Len(hay) :
            /\ OccursAt(hay, needle, k)
            /\ \A m \in 0..(k - 1) : ~OccursAt(hay, needle, m)
    ELSE -1

\* needle in hay
contains(hay, needle) == \E k \in 0..Len(hay) : OccursAt(hay, needle, k)

\* str.strip() over the one whitespace character of the model's texts
RECURSIVE lstrip(_)
lstrip(s) == IF s # <<>> /\ IsSpace(Head(s)) THEN lstrip(Tail(s)) ELSE s
RECURSIVE rstrip(_)
rstrip(s) == IF s # <<>> /\ IsSpace(s[Len(s)]) THEN rstrip(SubSeq(s, 1, Len(s) - 1)) ELSE s
strip(s) == rstrip(lstrip(s))

\* s.replace(c, "") for a one-character c
RECURSIVE removeChar(_, _)
removeChar(s, c) ==
    IF s = <<>> THEN <<>>
    ELSE IF Head(s) = c THEN removeChar(Tail(s), c)
    ELSE <<Head(s)>> \o removeChar(Tail(s), c)

\* re.sub(r"[^A-Z0-9/&\-\s]", " ", s)
IsTypeChar(c) == IsUpper(c) \/ IsDigit(c) \/ c = "/" \/ c = "&" \/ c = "-" \/ IsSpace(c)
sanitize(s) == [i \in 1..Len(s) |-> IF IsTypeChar(s[i]) THEN s[i] ELSE " "]

\* --------------------------------------------------------------- regexes
\* The amount patterns a configuration may carry.  RxDefault is the pattern
\* of merge_total_field; RxLoose is the vendor pattern \$\S+ (a currency
\* sign and everything up to the next blank), which also matches texts such
\* as $N/A that are no numbers.
RxDefault == "default"
RxLoose == "loose"

\* the character of s at the 1-based position p, or "" past the end
At(s, p) == IF p >= 1 /\ p <= Len(s) THEN s[p] ELSE ""

RECURSIVE skipSpaces(_, _)
skipSpaces(s, p) == IF IsSpace(At(s, p)) THEN skipSpaces(s, p + 1) ELSE p

\* \d{1,3}: the position after at most three digits starting at p
digits13(s, p) ==
    IF ~IsDigit(At(s, p)) THEN p
    ELSE IF ~IsDigit(At(s, p + 1)) THEN p + 1
    ELSE IF ~IsDigit(At(s, p + 2)) THEN p + 2
    ELSE p + 3

\* (?:,\d{3})*: the position after every comma group starting at p
RECURSIVE commaGroups(_, _)
commaGroups(s, p) ==
    IF At(s, p) = "," /\ IsDigit(At(s, p + 1)) /\ IsDigit(At(s, p + 2)) /\ IsDigit(At(s, p + 3))
    THEN commaGroups(s, p + 4)
    ELSE p

\* \$?\s*-?\(?\d{1,3}(?:,\d{3})*(?:\.\d{2})?\)? matched at the 1-based
\* position p: the position after the match, or 0 when it does not match
\* there.  Every optional part is greedy, and giving one up never helps the
\* rest to match, so the first attempt of the backtracking matcher decides.
matchDefault(s, p) ==
    LET p1 == IF At(s, p) = "$" THEN p + 1 ELSE p
        p2 == skipSpaces(s, p1)
        p3 == IF At(s, p2) = "-" THEN p2 + 1 ELSE p2
        p4 == IF At(s, p3) = "(" THEN p3 + 1 ELSE p3
        p5 == digits13(s, p4)
        p6 == commaGroups(s, p5)
        p7 == IF At(s, p6) = "." /\ IsDigit(At(s, p6 + 1)) /\ IsDigit(At(s, p6 + 2))
              THEN p6 + 3 ELSE p6
        p8 == IF At(s, p7) = ")" THEN p7 + 1 ELSE p7
    IN  IF p5 = p4 THEN 0 ELSE p8

RECURSIVE skipNonSpaces(_, _)
skipNonSpaces(s, p) ==
    IF p <= Len(s) /\ ~IsSpace(s[p]) THEN skipNonSpaces(s, p + 1) ELSE p

\* \$\S+ matched at p
matchLoose(s, p) ==
    IF At(s, p) = "$" /\ p + 1 <= Len(s) /\ ~IsSpace(s[p + 1])
    THEN skipNonSpaces(s, p + 1)
    ELSE 0

matchAt(rx, s, p) == IF rx = RxDefault THEN matchDefault(s, p) ELSE matchLoose(s, p)

\* rx.findall(text): the non-overlapping matches, left to right
RECURSIVE findallFrom(_, _, _)
findallFrom(rx, s, p) ==
    IF p > Len(s) THEN <<>>
    ELSE LET e == matchAt(rx, s, p)
         IN  IF e = 0 THEN findallFrom(rx, s, p + 1)
             ELSE <<SubSeq(s, p, e - 1)>> \o findallFrom(rx, s, e)

findall(rx, s) == findallFrom(rx, s, 1)

\* ------------------------------------------------------- amount to number
NaN == [isnan |-> TRUE, cents |-> 0]
Num(c) == [isnan |-> FALSE, cents |-> c]

\* Python's float comparisons: every comparison with not-a-number is false
FloatGt(a, b) == ~a.isnan /\ ~b.isnan /\ a.cents > b.cents
FloatEq(a, b) == ~a.isnan /\ ~b.isnan /\ a.cents = b.cents
FloatNeg(a) == IF a.isnan THEN a ELSE Num(0 - a.cents)

AllDigits(s) == \A i \in 1..Len(s) : IsDigit(s[i])

RECURSIVE digitsValue(_)
digitsValue(s) ==
    IF s = <<>> THEN 0 ELSE digitsValue(SubSeq(s, 1, Len(s) - 1)) * 10 + DigitVal(s[Len(s)])

\* the hundredths a fractional part stands for (its first two digits)
fractionCents(f) ==
    IF Len(f) = 0 THEN 0
    ELSE IF Len(f) = 1 THEN DigitVal(f[1]) * 10
    ELSE DigitVal(f[1]) * 10 + DigitVal(f[2])

\* float(s) for a text of signs, digits, points and anything else: an
\* optional sign, digits with an optional point, at least one digit; every
\* other text raises ValueError, which the caller turns into not-a-number.
\* (Exponents, underscores, "inf" and "nan" spellings do not occur in the
\* model's texts.)
parseFloat(s) ==
    LET signed == s # <<>> /\ (s[1] = "-" \/ s[1] = "+")
        body == IF signed THEN Tail(s) ELSE s
        dot == find(body, <<".">>)
        ip == IF dot = -1 THEN body ELSE SubSeq(body, 1, dot)
        fp == IF dot = -1 THEN <<>> ELSE SliceFrom(body, dot + 1)
        mag == digitsValue(ip) * 100 + fractionCents(fp)
    IN  IF AllDigits(ip) /\ AllDigits(fp) /\ Len(ip) + Len(fp) >= 1
        THEN Num(IF signed /\ s[1] = "-" THEN 0 - mag ELSE mag)
        ELSE NaN

\* def _amount_to_number(txt)
amount_to_number(txt) ==
    LET s == strip(txt)
        neg == s # <<>> /\ s[1] = "(" /\ s[Len(s)] = ")"
        r == strip(removeChar(removeChar(removeChar(removeChar(s, "$"), ","), "("), ")"))
        val == parseFloat(r)
    IN  IF neg THEN FloatNeg(val) ELSE val

\* def amounts_in(text), inside pick_invoice_total
amounts_in(rx, text) ==
    LET hits == findall(rx, text)
    IN  [i \in 1..Len(hits) |-> strip(hits[i])]

\* ------------------------------------------------------- configurations
\* the phrase lists merge_total_field falls back to
DefaultAnchors == <<<<"I","n","v","o","i","c","e"," ","A","m","o","u","n","t">>,
                    <<"T","o","t","a","l"," ","D","u","e">>,
                    <<"A","m","o","u","n","t"," ","D","u","e">>,
                    <<"N","e","t"," ","I","n","v","o","i","c","e"," ","A","m","o","u","n","t">>,
                    <<"G","r","a","n","d"," ","T","o","t","a","l">>,
                    <<"B","a","l","a","n","c","e"," ","D","u","e">>>>

DefaultDiscourage == <<<<"s","u","b","t","o","t","a","l">>,
                       <<"s","a","l","e","s"," ","t","a","x">>,
                       <<"t","a","x">>,
                       <<"s","h","i","p","p","i","n","g">>,
                       <<"f","r","e","i","g","h","t">>,
                       <<"h","a","n","d","l","i","n","g">>,
                       <<"o","t","h","e","r"," ","c","h","a","r","g","e","s">>,
                       <<"m","i","s","c">>>>

DefaultDueKeywords == <<<<"t","o","t","a","l"," ","d","u","e">>,
                        <<"a","m","o","u","n","t"," ","d","u","e">>,
                        <<"b","a","l","a","n","c","e"," ","d","u","e">>,
                        <<"g","r","a","n","d"," ","t","o","t","a","l">>>>

DefaultNetKeywords == <<<<"n","e","t"," ","i","n","v","o","i","c","e"," ","a","m","o","u","n","t">>,
                        <<"i","n","v","o","i","c","e"," ","a","m","o","u","n","t">>,
                        <<"n","e","t"," ","t","o","t","a","l">>>>

\* phrases of the other configurations
capTotalDue == <<"T","o","t","a","l"," ","D","u","e">>
capSubtotal == <<"S","u","b","t","o","t","a","l">>
kwSubtotal == <<"s","u","b","t","o","t","a","l">>
kwSalesTax == <<"s","a","l","e","s"," ","t","a","x">>
kwTotalDue == <<"t","o","t","a","l"," ","d","u","e">>
kwInvoiceAmount == <<"i","n","v","o","i","c","e"," ","a","m","o","u","n","t">>

\* The configurations pick_invoice_total is called with (its parameters
\* anchors, regex, discourage_words, lookahead_lines, due_keywords and
\* net_keywords; a missing list is the empty list, as "x or []" makes it):
\*   1  the configuration of the end-to-end scenario
\*   2  the defaults of merge_total_field
\*   3  no anchors, capitalised phrases
\*   4  no discourage words, "invoice amount" a net keyword, lookahead 1
\*   5  as 4, with a vendor pattern that also matches non-numeric texts
Configs ==
    << [anchors |-> <<capTotalDue>>, regex |-> RxDefault,
        discourage_words |-> <<kwSubtotal, kwSalesTax>>, lookahead_lines |-> 2,
        due_keywords |-> <<kwTotalDue>>, net_keywords |-> <<>>],
       [anchors |-> DefaultAnchors, regex |-> RxDefault,
        discourage_words |-> DefaultDiscourage, lookahead_lines |-> 2,
        due_keywords |-> DefaultDueKeywords, net_keywords |-> DefaultNetKeywords],
       [anchors |-> <<>>, regex |-> RxDefault,
        discourage_words |-> <<capSubtotal>>, lookahead_lines |-> 2,
        due_keywords |-> <<capTotalDue>>, net_keywords |-> <<>>],
       [anchors |-> <<capTotalDue>>, regex |-> RxDefault,
        discourage_words |-> <<>>, lookahead_lines |-> 1,
        due_keywords |-> <<kwTotalDue>>, net_keywords |-> <<kwInvoiceAmount>>],
       [anchors |-> <<capTotalDue>>, regex |-> RxLoose,
        discourage_words |-> <<>>, lookahead_lines |-> 1,
        due_keywords |-> <<kwTotalDue>>, net_keywords |-> <<kwInvoiceAmount>>] >>

\* ------------------------------------------------------------ documents
\* The lines documents are made of.  1..9 are the body lines the total
\* picker is run on, 10..14 the header lines the type detector is run on:
\*    1  Subtotal  $500.00             8  Invoice Amount $200.00 $N/A
\*    2  Subtotal: $100.00             9  Total Due ex Sales Tax $460.00
\*    3  Sales Tax  $40.00            10  INVOICE
\*    4  Total Due  $540.00           11  Rental Return Invoice
\*    5  Total Due $150.00            12  Invoice Number: 123
\*    6  Total Due                    13  INVOICE # 123
\*    7  $N/A $75.00 $30.00           14  ACME SUPPLY CO
Catalogue == <<<<"S","u","b","t","o","t","a","l"," "," ","$","5","0","0",".","0","0">>,
               <<"S","u","b","t","o","t","a","l",":"," ","$","1","0","0",".","0","0">>,
               <<"S","a","l","e","s"," ","T","a","x"," "," ","$","4","0",".","0","0">>,
               <<"T","o","t","a","l"," ","D","u","e"," "," ","$","5","4","0",".","0","0">>,
               <<"T","o","t","a","l"," ","D","u","e"," ","$","1","5","0",".","0","0">>,
               <<"T","o","t","a","l"," ","D","u","e">>,
               <<"$","N","/","A"," ","$","7","5",".","0","0"," ","$","3","0",".","0","0">>,
               <<"I","n","v","o","i","c","e"," ","A","m","o","u","n","t"," ","$","2","0","0",".","0","0"," ","$","N","/","A">>,
               <<"T","o","t","a","l"," ","D","u","e"," ","e","x"," ","S","a","l","e","s"," ","T","a","x"," ","$","4","6","0",".","0","0">>,
               <<"I","N","V","O","I","C","E">>,
               <<"R","e","n","t","a","l"," ","R","e","t","u","r","n"," ","I","n","v","o","i","c","e">>,
               <<"I","n","v","o","i","c","e"," ","N","u","m","b","e","r",":"," ","1","2","3">>,
               <<"I","N","V","O","I","C","E"," ","#"," ","1","2","3">>,
               <<"A","C","M","E"," ","S","U","P","P","L","Y"," ","C","O">>>>

BodyLines == 1..9
HeaderLines == 10..14

\* the longest document of the total picker, and of the type detector
MaxLines == 3
MaxHeader == 3

\* every sequence over S of length at most n
SeqsUpTo(S, n) == UNION {[1..m -> S] : m \in 0..n}

\* --------------------------------------------------- pick_invoice_total
None == <<"None">>

\* any(w in low for w in words), the words lower-cased as the code does
any_in(low, words) == \E i \in 1..Len(words) : contains(low, lower(words[i]))

\* hits = [a for a in anchors if a.lower() in low], as positions in anchors
anchor_hits(low, anchors) == {i \in 1..Len(anchors) : contains(low, lower(anchors[i]))}

\* a = min(hits, key=lambda x: low.find(x.lower())): the anchor found
\* left-most, the first of the list among those found at the same place
first_anchor(low, anchors) ==
    LET hits == anchor_hits(low, anchors)
        pos(i) == find(low, lower(anchors[i]))
    IN  anchors[CHOOSE i \in hits :
                  \A k \in hits : pos(i) < pos(k) \/ (pos(i) = pos(k) /\ i <= k)]

\* segment = ln[cut + len(a):], the text right of the chosen anchor
anchor_segment(ln, anchors) ==
    LET low == lower(ln)
        a == first_anchor(low, anchors)
        cut == find(low, lower(a))
    IN  SliceFrom(ln, cut + Len(a))

\* the fixed vocabulary of the total-ish pass
TotalishWords == <<<<"t","o","t","a","l">>,
                   <<"a","m","o","u","n","t"," ","d","u","e">>,
                   <<"b","a","l","a","n","c","e"," ","d","u","e">>,
                   <<"i","n","v","o","i","c","e"," ","a","m","o","u","n","t">>,
                   <<"n","e","t"," ","i","n","v","o","i","c","e"," ","a","m","o","u","n","t">>,
                   <<"g","r","a","n","d"," ","t","o","t","a","l">>,
                   <<"t","o","t","a","l"," ","d","u","e">>>>

\* totalish = tuple(set([...] + due_keywords + net_keywords))
totalish(cf) == TotalishWords \o cf.due_keywords \o cf.net_keywords

\* amount texts with the numbers _amount_to_number makes of them
tokens(amts) == [i \in 1..Len(amts) |-> [amt |-> amts[i], val |-> amount_to_number(amts[i])]]

\* What the passes and the scorer read of one line under one configuration:
\*   disc      any(dw in low for dw in discourage_words)
\*   hit       the line holds an anchor
\*   seg_amts  amounts_in(segment), the amounts right of the first anchor,
\*             each with its number
\*   amts      amounts_in(ln), each with its number
\*   totalish  any(t in low for t in totalish)
\*   due, net  any(k in low for k in due_keywords / net_keywords)
line_facts(cf, ln) ==
    LET low == lower(ln)
        hit == anchor_hits(low, cf.anchors) # {}
    IN  [disc |-> any_in(low, cf.discourage_words),
         hit |-> hit,
         seg_amts |-> IF hit THEN tokens(amounts_in(cf.regex, anchor_segment(ln, cf.anchors))) ELSE <<>>,
         amts |-> tokens(amounts_in(cf.regex, ln)),
         totalish |-> any_in(low, totalish(cf)),
         due |-> any_in(low, cf.due_keywords),
         net |-> any_in(low, cf.net_keywords)]

\* line_facts of every configuration and catalogue line, computed once
Facts == [c \in 1..Len(Configs) |-> [k \in 1..Len(Catalogue) |-> line_facts(Configs[c], Catalogue[k])]]

\* the facts of a document's lines, in document order
doc_facts(F, doc, c) == [i \in 1..Len(doc) |-> F[c][doc[i]]]

\* the facts of the line at the 0-based index i, fs being the facts of the
\* document's lines
fact(fs, i) == fs[i + 1]

\* A candidate (amount_text, value, line_idx, line_text, flags): the line
\* text is lines[idx], the flags hold exactly one key, kept as flag (and j,
\* the lookahead offset of an anchor_next candidate).
Candidate(tok, i, flag, j) ==
    [amt |-> tok.amt, val |-> tok.val, idx |-> i, flag |-> flag, j |-> j]

Last(q) == q[Len(q)]

\* the lookahead of the anchor line i: offsets j, j + 1, ... lookahead_lines
RECURSIVE lookahead_candidates(_, _, _, _)
lookahead_candidates(fs, la, i, j) ==
    IF j > la THEN <<>>
    ELSE LET rest == lookahead_candidates(fs, la, i, j + 1)
         IN  IF i + j < Len(fs)
                THEN IF fact(fs, i + j).disc THEN rest
                     ELSE IF fact(fs, i + j).amts # <<>>
                          THEN <<Candidate(Last(fact(fs, i + j).amts), i + j, "anchor_next", j)>> \o rest
                          ELSE rest
                ELSE rest

\* the anchor loop without its skip of the discourage lines
anchor_candidates_no_skip(fs, la, i) ==
    LET f == fact(fs, i)
    IN  IF ~f.hit THEN <<>>
        ELSE (IF f.seg_amts # <<>> THEN <<Candidate(Last(f.seg_amts), i, "anchor", 0)>> ELSE <<>>)
             \o lookahead_candidates(fs, la, i, 1)

\* one turn of the anchor loop, for the line at index i
anchor_candidates(fs, la, i) ==
    LET f == fact(fs, i)
    IN  IF f.disc THEN <<>>
        ELSE IF ~f.hit THEN <<>>
        ELSE (IF f.seg_amts # <<>> THEN <<Candidate(Last(f.seg_amts), i, "anchor", 0)>> ELSE <<>>)
             \o lookahead_candidates(fs, la, i, 1)

RECURSIVE anchor_pass(_, _, _)
anchor_pass(fs, la, i) ==
    IF i >= Len(fs) THEN <<>>
    ELSE anchor_candidates(fs, la, i) \o anchor_pass(fs, la, i + 1)

\* one turn of the total-ish loop
totalish_candidates(fs, i) ==
    LET f == fact(fs, i)
    IN  IF f.totalish /\ f.amts # <<>>
        THEN <<Candidate(Last(f.amts), i, "totalish", 0)>>
        ELSE <<>>

RECURSIVE totalish_pass(_, _)
totalish_pass(fs, i) ==
    IF i >= Len(fs) THEN <<>>
    ELSE totalish_candidates(fs, i) \o totalish_pass(fs, i + 1)

\* candidates, as the two passes leave it
build_candidates(fs, la) == anchor_pass(fs, la, 0) \o totalish_pass(fs, 0)

\* all_amts of the fallback: every amount of every line, in document order
RECURSIVE line_amounts(_, _, _)
line_amounts(amts, i, k) ==
    IF k > Len(amts) THEN <<>>
    ELSE <<Candidate(amts[k], i, "", 0)>> \o line_amounts(amts, i, k + 1)

RECURSIVE fallback_amounts(_, _)
fallback_amounts(fs, i) ==
    IF i >= Len(fs) THEN <<>>
    ELSE line_amounts(fact(fs, i).amts, i, 1) \o fallback_amounts(fs, i + 1)

\* N = max(1, len(lines))
LineCount(fs) == IF Len(fs) > 1 THEN Len(fs) ELSE 1

\* score_item with the discourage weight added where the code subtracts it
score_item_penalty_added(fs, item) ==
    LET f == fact(fs, item.idx)
        s == (IF item.flag = "anchor" THEN 6 ELSE 0)
             + (IF f.due THEN 5 ELSE 0)
             + (IF item.flag = "anchor_next" THEN 3 ELSE 0)
             + (IF f.net THEN 1 ELSE 0)
             + (IF f.disc THEN 6 ELSE 0)
    IN  s * LineCount(fs) + 2 * item.idx

\* score_item with the weights 7 for a due keyword and 3 for a net keyword
score_item_due7_net3(fs, item) ==
    LET f == fact(fs, item.idx)
        s == (IF item.flag = "anchor" THEN 6 ELSE 0)
             + (IF f.due THEN 7 ELSE 0)
             + (IF item.flag = "anchor_next" THEN 3 ELSE 0)
             + (IF f.net THEN 3 ELSE 0)
             - (IF f.disc THEN 6 ELSE 0)
    IN  s * LineCount(fs) + 2 * item.idx

\* score_item(item), times N: the additive score and 2.0 * (idx / N)
score_item(fs, item) ==
    LET f == fact(fs, item.idx)
        s == (IF item.flag = "anchor" THEN 6 ELSE 0)
             + (IF f.due THEN 5 ELSE 0)
             + (IF item.flag = "anchor_next" THEN 3 ELSE 0)
             + (IF f.net THEN 1 ELSE 0)
             - (IF f.disc THEN 6 ELSE 0)
    IN  s * LineCount(fs) + 2 * item.idx

\* the one element of a set of one element
The(S) == CHOOSE x \in S : TRUE

\* the order of the keys with the scores alone deciding
KeyGt_score_only(a, b) == a[1] > b[1]

\* Python's > on the keys (score, value): the scores decide unless they are
\* equal, and then the values do, as floats
KeyGt(a, b) == a[1] > b[1] \/ (a[1] = b[1] /\ FloatGt(a[2], b[2]))

\* max(items, key=...) over the first i items: the item kept is replaced
\* by a later one only when the later one's key is greater
RECURSIVE max_upto(_, _)
max_upto(keys, i) ==
    IF i = 1 THEN 1
    ELSE The({IF KeyGt(keys[i], keys[best]) THEN i ELSE best : best \in {max_upto(keys, i - 1)}})

py_max(keys) == max_upto(keys, Len(keys))

\* the keys of the two max calls: (score_item(it), it[1]) and t[1]
score_keys(cands, sc) == [i \in 1..Len(cands) |-> <<sc[i], cands[i].val>>]
value_keys(amts) == [i \in 1..Len(amts) |-> <<0, amts[i].val>>]

\* pick_invoice_total without its fallback to the amounts of the document
pick_result_no_fallback(cands, sc, all) ==
    IF cands = <<>>
    THEN <<None, "total_not_found">>
    ELSE <<cands[py_max(score_keys(cands, sc))].amt, "total_scored_final">>

\* what pick_invoice_total returns, given its candidates, their scores and
\* the fallback's all_amts
pick_result(cands, sc, all) ==
    IF cands = <<>>
    THEN IF all # <<>>
         THEN <<all[py_max(value_keys(all))].amt, "total_max_in_doc">>
         ELSE <<None, "total_not_found">>
    ELSE <<cands[py_max(score_keys(cands, sc))].amt, "total_scored_final">>

\* --------------------------------------------------- detect_invoice_type
sINVOICE == <<"I","N","V","O","I","C","E">>
sRentalReturn == <<"R","e","n","t","a","l"," ","R","e","t","u","r","n"," ","I","n","v","o","i","c","e">>
sCreditMemo == <<"C","r","e","d","i","t"," ","M","e","m","o">>
sInvoiceNumber == <<"I","N","V","O","I","C","E"," ","N","U","M","B","E","R">>
sInvoiceHash == <<"I","N","V","O","I","C","E"," ","#">>
sInvoiceNo == <<"I","N","V","O","I","C","E"," ","N","O">>

\* the exclude_near list detect_invoice_type falls back to
DefaultExclude == <<sInvoiceNumber, sInvoiceHash, sInvoiceNo>>

\* The invoice_type sections of global_cfg the detector is run with:
\*   1  three include phrases, the default header zone of 12 lines
\*   2  the same phrases, a header zone of one line
\*   3  a section with no include_keywords (the default, INVOICE alone) and
\*      a header zone of two lines
TypeConfigs ==
    << [header_zone_lines |-> 12, include_keywords |-> <<sINVOICE, sRentalReturn, sCreditMemo>>,
        exclude_near |-> DefaultExclude],
       [header_zone_lines |-> 1, include_keywords |-> <<sINVOICE, sRentalReturn, sCreditMemo>>,
        exclude_near |-> DefaultExclude],
       [header_zone_lines |-> 2, include_keywords |-> <<sINVOICE>>,
        exclude_near |-> DefaultExclude] >>

\* sorted(include, key=len, reverse=True): longest first, equal lengths in
\* their order of the list
RECURSIVE sorted_by_len(_)
sorted_by_len(q) ==
    IF q = <<>> THEN <<>>
    ELSE LET k == CHOOSE i \in 1..Len(q) :
                     /\ \A m \in 1..Len(q) : Len(q[m]) <= Len(q[i])
                     /\ \A m \in 1..(i - 1) : Len(q[m]) < Len(q[i])
         IN  <<q[k]>> \o sorted_by_len(SubSeq(q, 1, k - 1) \o SubSeq(q, k + 1, Len(q)))

\* the phrases of a list, upper-cased
upper_all(q) == [i \in 1..Len(q) |-> upper(q[i])]

\* the first phrase other than INVOICE, in the order given, that up holds
RECURSIVE first_phrase_in(_, _)
first_phrase_in(up, phrases) ==
    IF phrases = <<>> THEN None
    ELSE IF Head(phrases) # sINVOICE /\ contains(up, Head(phrases)) THEN Head(phrases)
    ELSE first_phrase_in(up, Tail(phrases))

\* What one turn of the loop over header_lines does with the line ln:
\* "continue" (the line is skipped or holds nothing), or the value returned
type_of_line(tc, ln) ==
    LET up == sanitize(upper(ln))
        exclude == upper_all(tc.exclude_near)
        include_sorted == sorted_by_len(upper_all(tc.include_keywords))
        phrase == first_phrase_in(up, include_sorted)
    IN  IF \E i \in 1..Len(exclude) : contains(up, exclude[i]) THEN <<"continue">>
        ELSE IF phrase # None THEN phrase
        ELSE IF contains(up, sINVOICE) THEN sINVOICE
        ELSE <<"continue">>

\* type_of_line for every type configuration and catalogue line
TypeFacts == [t \in 1..Len(TypeConfigs) |-> [k \in 1..Len(Catalogue) |-> type_of_line(TypeConfigs[t], Catalogue[k])]]

\* header_lines = lines[:max(1, n)]
header_lines(doc, n) ==
    LET m == IF n > 1 THEN n ELSE 1
    IN  IF m >= Len(doc) THEN doc ELSE SubSeq(doc, 1, m)

\* the loop over header_lines, ts being type_of_line of each of them: the
\* first line that returns decides
RECURSIVE scan_header(_, _)
scan_header(ts, i) ==
    IF i > Len(ts) THEN None
    ELSE IF ts[i] # <<"continue">> THEN ts[i]
    ELSE scan_header(ts, i + 1)

\* detect_invoice_type on the lines of which ts is type_of_line, with
\* header_zone_lines n
detect_invoice_type(ts, n) == scan_header(header_lines(ts, n), 1)

\* ------------------------------------------------------- amount inputs
\* The texts _amount_to_number is applied to.  An amount text is put
\* together from the parts of the currency pattern; units is the whole
\* number its digit group stands for and cents the hundredths of its
\* fraction, so that the number a text stands for is known apart from the
\* conversion.  A residue is a text that is no number.
DigitGroups == << [text |-> <<"1",",","2","3","4">>, units |-> 1234],
                  [text |-> <<"1","2","3","4">>, units |-> 1234],
                  [text |-> <<"5">>, units |-> 5] >>
Fractions == << [text |-> <<>>, cents |-> 0],
                [text |-> <<".","5","6">>, cents |-> 56] >>
Residues == << <<"N","/","A">>, <<>>, <<"$">>, <<"-","-">>, <<"1",".","2",".","3">>, <<"(",")">> >>

AmountParts ==
    [kind : {"amount"}, dollar : {<<>>, <<"$">>}, space : {<<>>, <<" ">>},
     minus : {<<>>, <<"-">>}, lparen : {<<>>, <<"(">>},
     digits : 1..Len(DigitGroups), frac : 1..Len(Fractions),
     rparen : {<<>>, <<")">>}, residue : {0}]
ResidueParts ==
    [kind : {"residue"}, dollar : {<<>>}, space : {<<>>}, minus : {<<>>}, lparen : {<<>>},
     digits : {1}, frac : {1}, rparen : {<<>>}, residue : 1..Len(Residues)]

\* the text the parts spell
PartsText(p) ==
    IF p.kind = "residue" THEN Residues[p.residue]
    ELSE p.dollar \o p.space \o p.minus \o p.lparen \o DigitGroups[p.digits].text
         \o Fractions[p.frac].text \o p.rparen

\* the hundredths the digits and the fraction of the parts stand for
PartsMagnitude(p) == DigitGroups[p.digits].units * 100 + Fractions[p.frac].cents

NoParts == [kind |-> "none", dollar |-> <<>>, space |-> <<>>, minus |-> <<>>, lparen |-> <<>>,
            digits |-> 1, frac |-> 1, rparen |-> <<>>, residue |-> 0]

\* ------------------------------------------------------------- the state
\* One call of one of the three functions:
\*   call        the function called
\*   pc          "called" before it ran, "returned" after
\*   lines       the document, as catalogue numbers (pick_invoice_total and
\*               detect_invoice_type)
\*   cfg         the configuration number (Configs or TypeConfigs)
\*   facts       what the function reads of each line of the document:
\*               line_facts for pick_invoice_total, type_of_line for
\*               detect_invoice_type
\*   candidates  pick_invoice_total's candidates when it returns
\*   scores      score_item of each candidate, times N
\*   all_amts    the fallback's all_amts (empty unless the fallback ran)
\*   result      what pick_invoice_total returned
\*   txt, parts  the argument of _amount_to_number and the parts it is made of
\*   num         what _amount_to_number returned
\*   itype       what detect_invoice_type returned
VARIABLES call, pc, lines, cfg, facts, candidates, scores, all_amts, result, txt, parts, num, itype

vars == <<call, pc, lines, cfg, facts, candidates, scores, all_amts, result, txt, parts, num, itype>>

Pending == <<"pending">>

InitTotal(F) ==
    /\ call = "pick_invoice_total"
    /\ lines \in SeqsUpTo(BodyLines, MaxLines)
    /\ cfg \in 1..Len(Configs)
    /\ facts = doc_facts(F, lines, cfg)
    /\ txt = <<>> /\ parts = NoParts

InitAmount ==
    /\ call = "amount_to_number"
    /\ parts \in AmountParts \cup ResidueParts
    /\ txt = PartsText(parts)
    /\ lines = <<>> /\ cfg = 0 /\ facts = <<>>

InitType(T) ==
    /\ call = "detect_invoice_type"
    /\ lines \in SeqsUpTo(HeaderLines, MaxHeader)
    /\ cfg \in 1..Len(TypeConfigs)
    /\ facts = doc_facts(T, lines, cfg)
    /\ txt = <<>> /\ parts = NoParts

Init ==
  \E F \in {Facts}, T \in {TypeFacts} :
    /\ pc = "called"
    /\ candidates = <<>> /\ scores = <<>> /\ all_amts = <<>>
    /\ result = <<Pending, "pending">>
    /\ num = NaN
    /\ itype = Pending
    /\ (InitTotal(F) \/ InitAmount \/ InitType(T))

\* pick_invoice_total(lines, anchors, regex, discourage_words, ...)
PickInvoiceTotal ==
    /\ call = "pick_invoice_total" /\ pc = "called"
    /\ \E cands \in {build_candidates(facts, Configs[cfg].lookahead_lines)} :
         \E sc \in {[i \in 1..Len(cands) |-> score_item(facts, cands[i])]} :
           \E all \in {IF cands = <<>> THEN fallback_amounts(facts, 0) ELSE <<>>} :
             /\ candidates' = cands
             /\ scores' = sc
             /\ all_amts' = all
             /\ result' = pick_result(cands, sc, all)
    /\ pc' = "returned"
    /\ UNCHANGED <<call, lines, cfg, facts, txt, parts, num, itype>>

\* _amount_to_number(txt)
AmountToNumber ==
    /\ call = "amount_to_number" /\ pc = "called"
    /\ num' = amount_to_number(txt)
    /\ pc' = "returned"
    /\ UNCHANGED <<call, lines, cfg, facts, candidates, scores, all_amts, result, txt, parts, itype>>

\* detect_invoice_type(lines, global_cfg)
DetectInvoiceType ==
    /\ call = "detect_invoice_type" /\ pc = "called"
    /\ itype' = detect_invoice_type(facts, TypeConfigs[cfg].header_zone_lines)
    /\ pc' = "returned"
    /\ UNCHANGED <<call, lines, cfg, facts, candidates, scores, all_amts, result, txt, parts, num>>

Next == PickInvoiceTotal \/ AmountToNumber \/ DetectInvoiceType

Spec == Init /\ [][Next]_vars

\* ============================================================ properties
\* What the properties below say of a call that has returned.
Returned == call = "pick_invoice_total" /\ pc = "returned"

\* the text of the document's line at the 1-based position k
LineText(k) == Catalogue[lines[k]]

\* a list of words holds the word w, whatever the case
HasWord(ws, w) == \E i \in 1..Len(ws) : lower(ws[i]) = lower(w)

StartsWith(s, p) == Len(s) >= Len(p) /\ SubSeq(s, 1, Len(p)) = p

\* what may stand between a label and its amount
Separators == {<<" ">>, <<" ", " ">>, <<":", " ">>}

\* The amount of a line that reads: label, separator, one amount.  The set
\* is empty when the line does not read so, and holds the amount text
\* otherwise.
LabelledAmount(ln, label) ==
    {a \in {SliceFrom(ln, Len(label) + Len(sep)) :
                sep \in {x \in Separators : StartsWith(ln, label \o x)}} :
        findall(RxDefault, a) = <<a>>}

\* the line at position k holds no amount
NoAmountAt(k) == facts[k].amts = <<>>

\* some line of the document holds an amount
SomeAmount == \E k \in 1..Len(lines) : ~NoAmountAt(k)

\* ---- C1
\* The configuration of the scenario: discourage_words holds subtotal,
\* due_keywords holds total due, anchors is ['Total Due'] or empty.
C1_Config ==
    /\ HasWord(Configs[cfg].discourage_words, kwSubtotal)
    /\ HasWord(Configs[cfg].due_keywords, kwTotalDue)
    /\ Configs[cfg].anchors \in {<<>>, <<capTotalDue>>}

\* The document of the scenario: a Subtotal line at position a, a Total Due
\* line with an amount at a later position b, no amount on any other line.
C1_Document(a, b) ==
    /\ a < b
    /\ LabelledAmount(LineText(a), capSubtotal) # {}
    /\ LabelledAmount(LineText(b), capTotalDue) # {}
    /\ \A k \in 1..Len(lines) : k \notin {a, b} => NoAmountAt(k)

C2_DiscourageSuppression ==
    (/\ Returned
     /\ HasWord(Configs[cfg].discourage_words, kwSubtotal)
     /\ Len(lines) = 1
     /\ LabelledAmount(LineText(1), capSubtotal \o <<":">>) # {})
        => result[2] \in {"total_not_found", "total_max_in_doc"}

\* ---- C3
\* C3: pick_invoice_total returns (None, 'total_not_found') exactly when no
\* line holds an amount; when a line holds one, the amount text returned is
\* not None and the outcome is total_scored_final or total_max_in_doc.
C3_NotFoundIffNoAmount ==
    Returned =>
        /\ (result = <<None, "total_not_found">>) <=> ~SomeAmount
        /\ SomeAmount => /\ result[1] # None
                         /\ result[2] \in {"total_scored_final", "total_max_in_doc"}
        /\ (result[1] = None) <=> (result[2] = "total_not_found")

\* C3, its cases: a document of lines without an amount is answered
\* total_not_found
C3_NotFoundReached ==
    /\ Returned /\ Len(lines) > 0 /\ ~SomeAmount
    /\ result = <<None, "total_not_found">>

\* the indices of a sequence
Indices(q) == 1..Len(q)

\* the candidates whose amount text is the one returned
Chosen == {k \in Indices(candidates) : candidates[k].amt = result[1]}

\* the greatest of the scores
TopScore == CHOOSE x \in {scores[i] : i \in Indices(scores)} : \A i \in Indices(scores) : scores[i] <= x

\* ---- C4
\* C4: an amount text whose number is the not-a-number sentinel is left out
\* of max and argmax.  When the fallback's amounts hold a proper number, the
\* amount returned with total_max_in_doc is the greatest of the proper
\* numbers; when a candidate of the top score has a proper number, the
\* amount returned with total_scored_final is not a sentinel-valued one.
C4_SentinelExcluded ==
    Returned =>
        /\ (result[2] = "total_max_in_doc" /\ \E m \in Indices(all_amts) : ~all_amts[m].val.isnan)
              => \E k \in Indices(all_amts) :
                    /\ all_amts[k].amt = result[1]
                    /\ ~all_amts[k].val.isnan
                    /\ \A m \in Indices(all_amts) :
                          ~all_amts[m].val.isnan => all_amts[m].val.cents <= all_amts[k].val.cents
        /\ (result[2] = "total_scored_final"
            /\ \E i \in Indices(candidates) : scores[i] = TopScore /\ ~candidates[i].val.isnan)
              => \E k \in Chosen : ~candidates[k].val.isnan

AdjusterWords == << <<"t","a","x">>, <<"s","a","l","e","s"," ","t","a","x">>,
                    <<"s","h","i","p","p","i","n","g">>, <<"f","r","e","i","g","h","t">>,
                    <<"h","a","n","d","l","i","n","g">>,
                    <<"o","t","h","e","r"," ","c","h","a","r","g","e","s">>,
                    <<"m","i","s","c">> >>

\* the line at the 0-based index i is an adjuster line
IsAdjuster(i) == any_in(lower(LineText(i + 1)), AdjusterWords)

\* one of the 8 lines before the 0-based index i, or the line at i itself,
\* is an adjuster line
TaxContext(i) == \E m \in 0..i : i - m <= 8 /\ IsAdjuster(m)

\* the additive part of a candidate's score under the weights given for a
\* due keyword, a net keyword and the tax context
Additive(c, wdue, wnet, wtax) ==
    (IF c.flag = "anchor" THEN 6 ELSE 0)
    + (IF facts[c.idx + 1].due THEN wdue ELSE 0)
    + (IF c.flag = "anchor_next" THEN 3 ELSE 0)
    + (IF facts[c.idx + 1].net THEN wnet ELSE 0)
    + (IF wtax # 0 /\ TaxContext(c.idx) THEN wtax ELSE 0)
    - (IF facts[c.idx + 1].disc THEN 6 ELSE 0)

\* N = max(1, line count)
LinesN == IF Len(lines) > 1 THEN Len(lines) ELSE 1

\* C6, as stated: every candidate's score is +6 for anchor evidence, +7 for
\* a due keyword on its line, +3 for anchor_next evidence, +3 for a net
\* keyword on its line, +3 when one of the previous 8 lines or its own line
\* is an adjuster line, -6 for a discourage word on its line, plus
\* 2 * (line index / N).  (Both sides are taken times N.)
C6_ScoreAsStated ==
    Returned =>
        \A i \in Indices(candidates) :
            scores[i] = Additive(candidates[i], 7, 3, 3) * LinesN + 2 * candidates[i].idx

\* C6, amended: every candidate's score is +6 for anchor evidence, +5 for a
\* due keyword on its line, +3 for anchor_next evidence, +1 for a net
\* keyword on its line, -6 for a discourage word on its line, plus
\* 2 * (line index / N); adjuster lines add nothing.  (Both sides are taken
\* times N.)
C6_ScoreOfTheCode ==
    Returned =>
        \A i \in Indices(candidates) :
            scores[i] = Additive(candidates[i], 5, 1, 0) * LinesN + 2 * candidates[i].idx

\* C6, its case: candidates on a due-keyword line and on a net-keyword
\* line, one of them with an adjuster line in its window
C6_DueNetAndTaxContextReached ==
    /\ Returned
    /\ \E i \in Indices(candidates) : facts[candidates[i].idx + 1].due
    /\ \E i \in Indices(candidates) : facts[candidates[i].idx + 1].net
    /\ \E i \in Indices(candidates) : TaxContext(candidates[i].idx)

\* ---- C7
\* C7: _amount_to_number makes of every amount text of the currency pattern
\* the signed number it stands for, a value wrapped in parentheses being
\* negated with or without a leading '$', and makes the not-a-number
\* sentinel of a text that is no number.  (Of the texts with a '-', only
\* those outside parentheses are held to a sign.)
C7_AmountNormalisation ==
    (call = "amount_to_number" /\ pc = "returned") =>
        LET wrapped == parts.lparen # <<>> /\ parts.rparen # <<>>
            minus == parts.minus # <<>>
        IN  /\ (parts.kind = "amount" /\ ~minus)
                  => num = Num(IF wrapped THEN 0 - PartsMagnitude(parts) ELSE PartsMagnitude(parts))
            /\ (parts.kind = "amount" /\ minus /\ ~wrapped)
                  => num = Num(0 - PartsMagnitude(parts))
            /\ parts.kind = "amount" => ~num.isnan
            /\ parts.kind = "residue" => num = NaN

\* ---- C8
\* the candidates on the line at the 1-based position k
CandidatesAt(k) == {i \in Indices(candidates) : candidates[i].idx = k - 1}

\* C8: a candidate on a line that holds a discourage word carries the
\* totalish flag and no other: the line yields no anchor candidate and no
\* anchor_next candidate, and still yields a totalish candidate, with its
\* right-most amount, when it holds a total-ish phrase and an amount.
C8_DiscourageLinesOnlyTotalish ==
    Returned =>
        \A k \in Indices(lines) :
            facts[k].disc =>
                /\ \A i \in CandidatesAt(k) : candidates[i].flag = "totalish"
                /\ (facts[k].totalish /\ facts[k].amts # <<>>)
                      => \E i \in CandidatesAt(k) :
                            /\ candidates[i].flag = "totalish"
                            /\ candidates[i].amt = Last(facts[k].amts).amt

\* C8, its case: a line that holds a discourage word, an anchor and an
\* amount, and follows an anchor line within its lookahead, has one
\* candidate, a totalish one
C8_SkippedHostAndTargetReached ==
    /\ Returned
    /\ \E k \in Indices(lines) :
          /\ k > 1
          /\ facts[k - 1].hit /\ ~facts[k - 1].disc /\ Configs[cfg].lookahead_lines >= 1
          /\ facts[k].disc /\ facts[k].hit /\ facts[k].seg_amts # <<>>
          /\ Cardinality(CandidatesAt(k)) = 1
          /\ \A i \in CandidatesAt(k) : candidates[i].flag = "totalish"

\* ---- C9
\* every amount token of every line
AllTokens == UNION {{facts[k].amts[m] : m \in Indices(facts[k].amts)} : k \in Indices(lines)}

\* C9: total_max_in_doc is returned exactly when no pass produced a
\* candidate and the document holds an amount; the amount text returned is
\* then that of a token whose number no token of any line exceeds.
C9_FallbackGlobalMax ==
    Returned =>
        /\ (result[2] = "total_max_in_doc") <=> (candidates = <<>> /\ SomeAmount)
        /\ result[2] = "total_max_in_doc"
              => \E t \in AllTokens :
                    /\ t.amt = result[1]
                    /\ ~t.val.isnan
                    /\ \A u \in AllTokens : ~FloatGt(u.val, t.val)

\* ---- C10
\* the positions of the header zone: the first max(1, header_zone_lines)
\* lines
HeaderZone ==
    LET n == TypeConfigs[cfg].header_zone_lines
        m == IF n > 1 THEN n ELSE 1
    IN  {k \in Indices(lines) : k <= m}

\* the header lines that hold no exclude_near phrase
NonExcluded ==
    {k \in HeaderZone :
        ~\E i \in Indices(TypeConfigs[cfg].exclude_near) :
            contains(upper(LineText(k)), upper(TypeConfigs[cfg].exclude_near[i]))}

\* the include phrases of more than one word, upper-cased
MultiWordPhrases ==
    {upper(TypeConfigs[cfg].include_keywords[i]) :
        i \in {x \in Indices(TypeConfigs[cfg].include_keywords) :
                  contains(TypeConfigs[cfg].include_keywords[x], <<" ">>)}}

\* the multi-word include phrases the non-excluded header lines hold
HeldPhrases == {p \in MultiWordPhrases : \E k \in NonExcluded : contains(upper(LineText(k)), p)}

\* C10: detect_invoice_type returns a multi-word include phrase when a
\* non-excluded header line holds one, INVOICE only when none holds one, and
\* None only when no non-excluded header line holds INVOICE.
C10_TypePriority ==
    (call = "detect_invoice_type" /\ pc = "returned") =>
        /\ HeldPhrases # {} => itype \in HeldPhrases
        /\ itype = sINVOICE => HeldPhrases = {}
        /\ itype = None => ~\E k \in NonExcluded : contains(upper(LineText(k)), sINVOICE)

====
